---- MODULE Spec2Model ----
(***************************************************************************)
(* Portfolio-to-CV: the extraction endpoint (main.py), the CV field store  *)
(* and its read endpoints (genpdf/pdf_api.py) and the document renderer    *)
(* (pdf_generator.py), as state machines.                                  *)
(*                                                                         *)
(* A text (a completion reply, a request body) is a sequence of lexemes:   *)
(* the backtick, the letters of the word json, whitespace and the JSON     *)
(* punctuation are one-character lexemes; a JSON string and the literal    *)
(* null are one lexeme each.  Offsets in a text count lexemes.             *)
(*                                                                         *)
(* A JSON value is [k |-> kind, v |-> payload]: an object carries the      *)
(* sequence of its members in insertion order (a Python dict), an array    *)
(* the sequence of its items, a string its text.                           *)
(***************************************************************************)
EXTENDS Integers, Sequences, FiniteSets, TLC

VARIABLES cv_storage, request, response, threads, lastWrite

vars == <<cv_storage, request, response, threads, lastWrite>>

----------------------------------------------------------------------------
(* Bounds *)

\* longest list value of an input record
MaxItems == 1
\* number of request-serving threads of the concurrent specification
NumThreads == 2

----------------------------------------------------------------------------
(* JSON values *)

JNull == [k |-> "null", v |-> ""]
JStr(s) == [k |-> "str", v |-> s]
JArr(items) == [k |-> "arr", v |-> items]
JObj(members) == [k |-> "obj", v |-> members]

isdict(x) == x.k = "obj"

\* d[key] = val
dict_setitem(d, key, val) ==
    IF \E i \in 1..Len(d.v) : d.v[i].key = key
    THEN JObj([i \in 1..Len(d.v) |->
                 IF d.v[i].key = key THEN [key |-> key, val |-> val] ELSE d.v[i]])
    ELSE JObj(Append(d.v, [key |-> key, val |-> val]))

\* key in d
dict_contains(d, key) == \E i \in 1..Len(d.v) : d.v[i].key = key

\* Python truth value of a JSON value
truthy(x) ==
    CASE x.k = "null" -> FALSE
      [] x.k = "str"  -> x.v # ""
      [] OTHER        -> Len(x.v) > 0

\* d.get(key) or default
dict_get_or(d, key, default) ==
    IF dict_contains(d, key)
       /\ truthy(d.v[CHOOSE i \in 1..Len(d.v) : d.v[i].key = key].val)
    THEN d.v[CHOOSE i \in 1..Len(d.v) : d.v[i].key = key].val
    ELSE default

\* d.get(key, default)
dict_get(d, key, default) ==
    IF dict_contains(d, key)
    THEN d.v[CHOOSE i \in 1..Len(d.v) : d.v[i].key = key].val
    ELSE default

\* list(d.keys())
dict_keys(d) == [i \in 1..Len(d.v) |-> d.v[i].key]

----------------------------------------------------------------------------
(* Texts *)

Whitespace == {" ", "\n"}
Punctuation == {"{", "}", "[", "]", ",", ":"}
\* the backtick character (it cannot be written inside a TLA+ string)
Backtick == "BACKTICK"
Bare == {Backtick, "j", "s", "o", "n"}

IsStringLexeme(c) == c \notin Whitespace \cup Punctuation \cup Bare \cup {"null"}

Fence == <<Backtick, Backtick, Backtick>>
FenceJson == <<Backtick, Backtick, Backtick, "j", "s", "o", "n">>

RECURSIVE lstrip(_)
lstrip(s) == IF s # <<>> /\ Head(s) \in Whitespace THEN lstrip(Tail(s)) ELSE s

RECURSIVE rstrip(_)
rstrip(s) ==
    IF s # <<>> /\ s[Len(s)] \in Whitespace THEN rstrip(SubSeq(s, 1, Len(s) - 1)) ELSE s

\* str.strip()
strip(s) == rstrip(lstrip(s))

\* str.startswith(p)
startswith(s, p) == Len(s) >= Len(p) /\ SubSeq(s, 1, Len(p)) = p

\* str.endswith(p)
endswith(s, p) == Len(s) >= Len(p) /\ SubSeq(s, Len(s) - Len(p) + 1, Len(s)) = p

\* s[n:]
DropFirst(s, n) == SubSeq(s, n + 1, Len(s))

\* s[:-n]
DropLast(s, n) == SubSeq(s, 1, Len(s) - n)

\* the cleanup of the completion reply before it is parsed
clean_json(text) ==
    LET a == strip(text)
        b == IF startswith(a, FenceJson) THEN DropFirst(a, 7) ELSE a
        c == IF startswith(b, Fence) THEN DropFirst(b, 3) ELSE b
        d == IF endswith(c, Fence) THEN DropLast(c, 3) ELSE c
    IN  strip(d)

----------------------------------------------------------------------------
(* json.loads: a result is [ok, val, pos]; pos is the 0-based offset of    *)
(* the error (JSONDecodeError.pos) or, on success, the 1-based index of    *)
(* the lexeme after the value.                                             *)

ParseOk(val, next) == [ok |-> TRUE, val |-> val, pos |-> next]
ParseErr(i) == [ok |-> FALSE, val |-> JNull, pos |-> i - 1]

RECURSIVE SkipWs(_, _)
SkipWs(s, i) == IF i <= Len(s) /\ s[i] \in Whitespace THEN SkipWs(s, i + 1) ELSE i

RECURSIVE scan_once(_, _), JSONArray(_, _, _), JSONObject(_, _, _)

\* one value starting exactly at index i
scan_once(s, i) ==
    IF i > Len(s) THEN ParseErr(i)
    ELSE IF s[i] = "{" THEN
        LET j == SkipWs(s, i + 1)
        IN  IF j <= Len(s) /\ s[j] = "}" THEN ParseOk(JObj(<<>>), j + 1)
            ELSE JSONObject(s, j, JObj(<<>>))
    ELSE IF s[i] = "[" THEN
        LET j == SkipWs(s, i + 1)
        IN  IF j <= Len(s) /\ s[j] = "]" THEN ParseOk(JArr(<<>>), j + 1)
            ELSE JSONArray(s, j, <<>>)
    ELSE IF s[i] = "null" THEN ParseOk(JNull, i + 1)
    ELSE IF IsStringLexeme(s[i]) THEN ParseOk(JStr(s[i]), i + 1)
    ELSE ParseErr(i)

\* the items of an array from index i on, acc the items read so far
JSONArray(s, i, acc) ==
    LET item == scan_once(s, i)
    IN  IF ~item.ok THEN item
        ELSE LET j == SkipWs(s, item.pos)
                 items == Append(acc, item.val)
             IN  IF j > Len(s) THEN ParseErr(j)
                 ELSE IF s[j] = "]" THEN ParseOk(JArr(items), j + 1)
                 ELSE IF s[j] # "," THEN ParseErr(j)
                 ELSE JSONArray(s, SkipWs(s, j + 1), items)

\* the members of an object from index i on (a key is expected at i)
JSONObject(s, i, acc) ==
    IF i > Len(s) \/ ~IsStringLexeme(s[i]) THEN ParseErr(i)
    ELSE LET c == SkipWs(s, i + 1)
         IN  IF c > Len(s) \/ s[c] # ":" THEN ParseErr(c)
             ELSE LET member == scan_once(s, SkipWs(s, c + 1))
                  IN  IF ~member.ok THEN member
                      ELSE LET j == SkipWs(s, member.pos)
                               d == dict_setitem(acc, s[i], member.val)
                           IN  IF j > Len(s) THEN ParseErr(j)
                               ELSE IF s[j] = "}" THEN ParseOk(d, j + 1)
                               ELSE IF s[j] # "," THEN ParseErr(j)
                               ELSE JSONObject(s, SkipWs(s, j + 1), d)

\* json.loads(s)
json_loads(s) ==
    LET r == scan_once(s, SkipWs(s, 1))
    IN  IF ~r.ok THEN r
        ELSE LET end == SkipWs(s, r.pos)
             IN  IF end # Len(s) + 1 THEN ParseErr(end) ELSE r

----------------------------------------------------------------------------
(* The CV record: its fields and the defaults of the field-read endpoints  *)

Fields == <<"personal_information", "professional_summary", "education",
            "work_experience", "skills", "projects", "certifications",
            "publications", "awards", "languages", "volunteer", "conferences",
            "memberships", "references">>

FieldSet == {Fields[i] : i \in 1..Len(Fields)}

\* the second argument of .get in the endpoint of field f
FieldDefault(f) ==
    CASE f = "personal_information" -> JObj(<<>>)
      [] f = "professional_summary" -> JStr("")
      [] OTHER                      -> JArr(<<>>)

----------------------------------------------------------------------------
(* Responses and requests *)

NoData == [k |-> "none", v |-> ""]

Response(status, kind, data) ==
    [status |-> status, kind |-> kind, data |-> data, fields |-> <<>>,
     raw |-> <<>>, pos |-> -1, elements |-> <<>>, filename |-> ""]

NoResponse == Response(0, "none", NoData)

Request(op, session_id, field, text, format) ==
    [op |-> op, session_id |-> session_id, field |-> field, text |-> text,
     format |-> format, upstream |-> "ok", cv_data |-> NoData]

NoRequest == Request("none", "", "", <<>>, "")

\* cv_storage[key] = val
storage_setitem_merging(store, key, val) ==
    IF key \in DOMAIN store /\ isdict(store[key]) /\ isdict(val)
    THEN [x \in DOMAIN store \cup {key} |->
            IF x = key
            THEN JObj(store[key].v \o
                      SelectSeq(val.v, LAMBDA m : ~dict_contains(store[key], m.key)))
            ELSE store[x]]
    ELSE [x \in DOMAIN store \cup {key} |-> IF x = key THEN val ELSE store[x]]

storage_setitem(store, key, val) ==
    [x \in DOMAIN store \cup {key} |-> IF x = key THEN val ELSE store[x]]

\* a session key of its own for the writer
session_id_fresh == "other"

\* the session key both writers use
session_id_default == "default"

----------------------------------------------------------------------------
(* Presentational blocks and the helpers of block assembly.  An assembly   *)
(* result is [ok, elements]; ok = FALSE is an exception raised on the way. *)

Paragraph(text, style) == [type |-> "Paragraph", text |-> text, style |-> style, height |-> 0]
Spacer(width, height) == [type |-> "Spacer", text |-> "", style |-> "", height |-> height]

Ok(elements) == [ok |-> TRUE, elements |-> elements]
Raise == [ok |-> FALSE, elements |-> <<>>]

\* the character U+2022 (not writable inside a TLA+ string)
Bullet == "(bullet)"

RECURSIVE Flatten(_)
Flatten(seqs) == IF seqs = <<>> THEN <<>> ELSE Head(seqs) \o Flatten(Tail(seqs))

\* statements run in order: the first exception ends the assembly
Chain(results) ==
    IF \A i \in 1..Len(results) : results[i].ok
    THEN Ok(Flatten([i \in 1..Len(results) |-> results[i].elements]))
    ELSE Raise

\* f"{x}": never raises; a value that is no string is shown by its repr
fmt(x) == CASE x.k = "str" -> x.v [] x.k = "null" -> "None" [] OTHER -> "<repr>"

\* Paragraph(x, style): the layout library needs a string
ParagraphOf(x, style) == IF x.k = "str" THEN Ok(<<Paragraph(x.v, style)>>) ELSE Raise

\* the items of "for item in x" (x is truthy when it is iterated): the items of
\* a list, the keys of a dict, the characters of a string (here: strings of one
\* character)
iter(x) ==
    CASE x.k = "arr" -> x.v
      [] x.k = "obj" -> [i \in 1..Len(x.v) |-> JStr(x.v[i].key)]
      [] OTHER       -> <<x>>

RECURSIVE str_join(_, _)
str_join(sep, strs) ==
    IF strs = <<>> THEN ""
    ELSE IF Len(strs) = 1 THEN strs[1]
    ELSE strs[1] \o sep \o str_join(sep, Tail(strs))

\* Paragraph(sep.join(items), style): join raises on an item that is no string
JoinedParagraph(sep, prefix, items, style) ==
    IF \A i \in 1..Len(items) : items[i].k = "str"
    THEN Ok(<<Paragraph(prefix \o str_join(sep, [i \in 1..Len(items) |-> items[i].v]), style)>>)
    ELSE Raise

\* [d[key] for key in keys if d.get(key)]
TruthyValues(d, keys) ==
    LET present == SelectSeq(keys, LAMBDA key : truthy(dict_get(d, key, JNull)))
    IN  [i \in 1..Len(present) |-> dict_get(d, present[i], JNull)]

----------------------------------------------------------------------------
(* The Document Renderer: pdf_generator.generatepdf                        *)

Heading(title) == Ok(<<Paragraph(title, "section_style")>>)

\* the header appending the contact line without testing contact_info
pg_header_unguarded(cv_data) ==
    IF ~isdict(cv_data) THEN Raise
    ELSE LET personal == dict_get(cv_data, "personal_information", JObj(<<>>))
         IN  IF ~isdict(personal) THEN Raise
             ELSE LET name == dict_get(personal, "name", JStr("CV"))
                      contact_info == TruthyValues(personal, <<"email", "phone", "address">>)
                  IN  Chain(<<ParagraphOf(name, "name_style"),
                              JoinedParagraph(" | ", "", contact_info, "contact_style"),
                              Ok(<<Spacer(1, 12)>>)>>)

\* header: name, contact line, links line
pg_header(cv_data) ==
    IF ~isdict(cv_data) THEN Raise
    ELSE LET personal == dict_get(cv_data, "personal_information", JObj(<<>>))
         IN  IF ~isdict(personal) THEN Raise
             ELSE LET name == dict_get(personal, "name", JStr("CV"))
                      contact_info == TruthyValues(personal, <<"email", "phone", "address">>)
                      linked == TruthyValues(personal, <<"linkedin">>)
                      github == TruthyValues(personal, <<"github">>)
                      website == TruthyValues(personal, <<"website">>)
                      links == [i \in 1..Len(linked) |-> JStr("LinkedIn: " \o fmt(linked[i]))]
                               \o [i \in 1..Len(github) |-> JStr("GitHub: " \o fmt(github[i]))]
                               \o [i \in 1..Len(website) |-> JStr("Website: " \o fmt(website[i]))]
                  IN  Chain(<<ParagraphOf(name, "name_style"),
                              IF Len(contact_info) > 0
                              THEN JoinedParagraph(" | ", "", contact_info, "contact_style")
                              ELSE Ok(<<>>),
                              IF Len(links) > 0
                              THEN JoinedParagraph(" | ", "", links, "contact_style")
                              ELSE Ok(<<>>),
                              Ok(<<Spacer(1, 12)>>)>>)

pg_summary(cv_data) ==
    LET summary == dict_get(cv_data, "professional_summary", JNull)
    IN  IF truthy(summary)
        THEN Chain(<<Heading("PROFESSIONAL SUMMARY"),
                     ParagraphOf(summary, "content_style"),
                     Ok(<<Spacer(1, 8)>>)>>)
        ELSE Ok(<<>>)

pg_skills(cv_data) ==
    LET skills == dict_get(cv_data, "skills", JNull)
    IN  IF truthy(skills)
        THEN Chain(<<Heading("CORE COMPETENCIES"),
                     JoinedParagraph(", ", "", iter(skills), "content_style"),
                     Ok(<<Spacer(1, 8)>>)>>)
        ELSE Ok(<<>>)

pg_project(project) ==
    IF ~isdict(project) THEN Raise
    ELSE LET project_name == dict_get(project, "name", JStr("Project"))
             description == dict_get(project, "description", JNull)
             technologies == dict_get(project, "technologies", JNull)
             link == dict_get(project, "link", JNull)
         IN  Chain(<<Ok(<<Paragraph("<b>" \o fmt(project_name) \o "</b>", "job_title_style")>>),
                     IF truthy(description)
                     THEN ParagraphOf(description, "content_style") ELSE Ok(<<>>),
                     IF truthy(technologies)
                     THEN JoinedParagraph(", ", "<b>Technologies:</b> ", iter(technologies),
                                          "content_style")
                     ELSE Ok(<<>>),
                     IF truthy(link)
                     THEN Ok(<<Paragraph("<b>Link:</b> " \o fmt(link), "content_style")>>)
                     ELSE Ok(<<>>),
                     Ok(<<Spacer(1, 6)>>)>>)

pg_projects(cv_data) ==
    LET projects == dict_get(cv_data, "projects", JNull)
    IN  IF truthy(projects)
        THEN Chain(<<Heading("KEY PROJECTS")>>
                   \o [i \in 1..Len(iter(projects)) |-> pg_project(iter(projects)[i])])
        ELSE Ok(<<>>)

\* the entry of a job reading job['position'] where the source reads job.get
pg_job_indexing(job) ==
    IF ~isdict(job) \/ ~dict_contains(job, "position") THEN Raise
    ELSE LET position == dict_get(job, "position", JStr("Position"))
             company == dict_get(job, "company", JStr("Company"))
             duration == dict_get(job, "duration", JStr(""))
             responsibilities == dict_get(job, "responsibilities", JNull)
             company_line == IF truthy(duration)
                             THEN fmt(company) \o " | " \o fmt(duration)
                             ELSE fmt(company)
         IN  Chain(<<Ok(<<Paragraph("<b>" \o fmt(position) \o "</b>", "job_title_style"),
                          Paragraph(company_line, "company_style")>>),
                     IF truthy(responsibilities)
                     THEN Ok([i \in 1..Len(iter(responsibilities)) |->
                                Paragraph(Bullet \o " " \o fmt(iter(responsibilities)[i]),
                                          "content_style")])
                     ELSE Ok(<<>>),
                     Ok(<<Spacer(1, 6)>>)>>)

pg_job(job) ==
    IF ~isdict(job) THEN Raise
    ELSE LET position == dict_get(job, "position", JStr("Position"))
             company == dict_get(job, "company", JStr("Company"))
             duration == dict_get(job, "duration", JStr(""))
             responsibilities == dict_get(job, "responsibilities", JNull)
             company_line == IF truthy(duration)
                             THEN fmt(company) \o " | " \o fmt(duration)
                             ELSE fmt(company)
         IN  Chain(<<Ok(<<Paragraph("<b>" \o fmt(position) \o "</b>", "job_title_style"),
                          Paragraph(company_line, "company_style")>>),
                     IF truthy(responsibilities)
                     THEN Ok([i \in 1..Len(iter(responsibilities)) |->
                                Paragraph(Bullet \o " " \o fmt(iter(responsibilities)[i]),
                                          "content_style")])
                     ELSE Ok(<<>>),
                     Ok(<<Spacer(1, 6)>>)>>)

pg_work_experience(cv_data) ==
    LET work_experience == dict_get(cv_data, "work_experience", JNull)
    IN  IF truthy(work_experience)
        THEN Chain(<<Heading("PROFESSIONAL EXPERIENCE")>>
                   \o [i \in 1..Len(iter(work_experience)) |->
                         pg_job(iter(work_experience)[i])])
        ELSE Ok(<<>>)

pg_edu(edu) ==
    IF ~isdict(edu) THEN Raise
    ELSE LET degree == dict_get(edu, "degree", JStr("Degree"))
             gpa == TruthyValues(edu, <<"gpa">>)
             edu_details == TruthyValues(edu, <<"institution", "graduation_year">>)
                            \o [i \in 1..Len(gpa) |-> JStr("GPA: " \o fmt(gpa[i]))]
         IN  Chain(<<Ok(<<Paragraph("<b>" \o fmt(degree) \o "</b>", "job_title_style")>>),
                     IF Len(edu_details) > 0
                     THEN JoinedParagraph(" | ", "", edu_details, "company_style")
                     ELSE Ok(<<>>),
                     Ok(<<Spacer(1, 4)>>)>>)

pg_education(cv_data) ==
    LET education == dict_get(cv_data, "education", JNull)
    IN  IF truthy(education)
        THEN Chain(<<Heading("EDUCATION")>>
                   \o [i \in 1..Len(iter(education)) |-> pg_edu(iter(education)[i])])
        ELSE Ok(<<>>)

additional_sections ==
    <<<<"certifications", "CERTIFICATIONS">>,
      <<"awards", "AWARDS & ACHIEVEMENTS">>,
      <<"languages", "LANGUAGES">>,
      <<"publications", "PUBLICATIONS">>,
      <<"volunteer", "VOLUNTEER EXPERIENCE">>,
      <<"conferences", "CONFERENCES">>,
      <<"memberships", "PROFESSIONAL MEMBERSHIPS">>>>

\* the loop body testing "key in cv_data" where the source tests "if data"
pg_additional_present(cv_data, key, title) ==
    LET data == dict_get(cv_data, key, JArr(<<>>))
    IN  IF dict_contains(cv_data, key)
        THEN Chain(<<Heading(title),
                     IF key \in {"languages", "certifications"}
                     THEN JoinedParagraph(", ", "", iter(data), "content_style")
                     ELSE Ok([i \in 1..Len(iter(data)) |->
                                Paragraph(Bullet \o " " \o fmt(iter(data)[i]), "content_style")]),
                     Ok(<<Spacer(1, 6)>>)>>)
        ELSE Ok(<<>>)

\* the body of the loop over additional_sections
pg_additional(cv_data, key, title) ==
    LET data == dict_get(cv_data, key, JArr(<<>>))
    IN  IF truthy(data)
        THEN Chain(<<Heading(title),
                     IF key \in {"languages", "certifications"}
                     THEN JoinedParagraph(", ", "", iter(data), "content_style")
                     ELSE Ok([i \in 1..Len(iter(data)) |->
                                Paragraph(Bullet \o " " \o fmt(iter(data)[i]), "content_style")]),
                     Ok(<<Spacer(1, 6)>>)>>)
        ELSE Ok(<<>>)

\* pdf_generator.generatepdf: the block sequence handed to the layout engine,
\* or the rendering failure
generatepdf(cv_data) ==
    LET header == pg_header(cv_data)
    IN  IF ~header.ok THEN Raise
        ELSE Chain(<<header, pg_summary(cv_data), pg_skills(cv_data), pg_projects(cv_data),
                     pg_work_experience(cv_data), pg_education(cv_data)>>
                   \o [i \in 1..Len(additional_sections) |->
                         pg_additional(cv_data, additional_sections[i][1],
                                       additional_sections[i][2])])

----------------------------------------------------------------------------
(* The renderer of the extraction endpoint: main.generatepdf               *)

main_generatepdf(cv_data) ==
    IF ~isdict(cv_data) THEN Raise
    ELSE LET personal == dict_get(cv_data, "personal_information", JObj(<<>>))
         IN  IF ~isdict(personal) THEN Raise
             ELSE LET name == dict_get(personal, "name", JStr("CV"))
                      email == TruthyValues(personal, <<"email">>)
                      phone == TruthyValues(personal, <<"phone">>)
                      summary == dict_get(cv_data, "professional_summary", JNull)
                      skills == dict_get(cv_data, "skills", JNull)
                      projects == dict_get(cv_data, "projects", JNull)
                      entry(project) ==
                          IF ~isdict(project) THEN Raise
                          ELSE Chain(<<Ok(<<Paragraph("<b>"
                                              \o fmt(dict_get(project, "name", JStr("Project")))
                                              \o "</b>", "Heading3")>>),
                                       IF truthy(dict_get(project, "description", JNull))
                                       THEN ParagraphOf(dict_get(project, "description", JNull),
                                                        "Normal")
                                       ELSE Ok(<<>>),
                                       Ok(<<Spacer(1, 8)>>)>>)
                  IN  Chain(<<ParagraphOf(name, "title_style"),
                              Ok([i \in 1..Len(email) |->
                                    Paragraph("Email: " \o fmt(email[i]), "Normal")]),
                              Ok([i \in 1..Len(phone) |->
                                    Paragraph("Phone: " \o fmt(phone[i]), "Normal")]),
                              Ok(<<Spacer(1, 20)>>),
                              IF truthy(summary)
                              THEN Chain(<<Ok(<<Paragraph("Professional Summary", "Heading2")>>),
                                           ParagraphOf(summary, "Normal"),
                                           Ok(<<Spacer(1, 12)>>)>>)
                              ELSE Ok(<<>>),
                              IF truthy(skills)
                              THEN Chain(<<Ok(<<Paragraph("Skills", "Heading2")>>),
                                           JoinedParagraph(" " \o Bullet \o " ", "", iter(skills),
                                                           "Normal"),
                                           Ok(<<Spacer(1, 12)>>)>>)
                              ELSE Ok(<<>>),
                              IF truthy(projects)
                              THEN Chain(<<Ok(<<Paragraph("Projects", "Heading2")>>)>>
                                         \o [i \in 1..Len(iter(projects)) |->
                                               entry(iter(projects)[i])])
                              ELSE Ok(<<>>)>>)

----------------------------------------------------------------------------
(* Inputs: the JSON values a client or the completion service sends, as    *)
(* texts                                                                   *)

Words == <<"math", "programming", "logic", "rhetoric">>
Word(i) == Words[((i - 1) % Len(Words)) + 1]
strs(n) == JArr([i \in 1..n |-> JStr(Word(i))])

Member(key, val) == [key |-> key, val |-> val]

PersonalSample ==
    JObj(<<Member("name", JStr("Ada Lovelace")), Member("email", JStr("ada@x.io")),
           Member("phone", JStr("555-0100")), Member("address", JStr("London")),
           Member("linkedin", JStr("in/ada")), Member("github", JStr("gh/ada")),
           Member("website", JStr("ada.io"))>>)

EducationSample ==
    JObj(<<Member("degree", JStr("BSc")), Member("institution", JStr("UoL")),
           Member("graduation_year", JStr("1835")), Member("gpa", JStr("4.0"))>>)

JobSample(n) ==
    JObj(<<Member("position", JStr("Analyst")), Member("company", JStr("Babbage")),
           Member("duration", JStr("1842-1843")), Member("responsibilities", strs(n))>>)

ProjectSample(n) ==
    JObj(<<Member("name", JStr("Engine")), Member("description", JStr("Notes")),
           Member("technologies", strs(n)), Member("link", JStr("x.io/e"))>>)

\* a value of field f with n items (n = 0: the empty value of its type)
SampleValue(f, n) ==
    IF n = 0 THEN FieldDefault(f)
    ELSE CASE f = "personal_information" -> PersonalSample
           [] f = "professional_summary" -> JStr("Mathematician")
           [] f = "education"            -> JArr([i \in 1..n |-> EducationSample])
           [] f = "work_experience"      -> JArr([i \in 1..n |-> JobSample(n)])
           [] f = "projects"             -> JArr([i \in 1..n |-> ProjectSample(n)])
           [] OTHER                      -> strs(n)

\* the record holding the fields fs (a sequence), each with n items
RecordOf(fs, n) == JObj([i \in 1..Len(fs) |-> Member(fs[i], SampleValue(fs[i], n))])

AltRecord ==
    JObj(<<Member("skills", JArr(<<JStr("poetry")>>)),
           Member("professional_summary", JStr("Poet")),
           Member("languages", JArr(<<JStr("fr")>>))>>)

NullNameRecord == JObj(<<Member("personal_information", JNull)>>)
NullSummaryRecord == JObj(<<Member("professional_summary", JNull)>>)

\* the fields at the odd positions of Fields, and those at the even positions
OddFields == SelectSeq(Fields, LAMBDA f : \E i \in 1..Len(Fields) : Fields[i] = f /\ i % 2 = 1)
EvenFields == SelectSeq(Fields, LAMBDA f : \E i \in 1..Len(Fields) : Fields[i] = f /\ i % 2 = 0)

CvRecords ==
    {RecordOf(Fields, n) : n \in 0..MaxItems}
    \cup {RecordOf(fs, n) : fs \in {OddFields, EvenFields}, n \in 1..MaxItems}
    \cup {JObj(<<>>), AltRecord, NullNameRecord, NullSummaryRecord}

NonRecords == {JArr(<<>>), strs(1), JStr("text"), JNull}

RECURSIVE JoinTexts(_, _)
JoinTexts(sep, texts) ==
    IF texts = <<>> THEN <<>>
    ELSE IF Len(texts) = 1 THEN texts[1]
    ELSE texts[1] \o sep \o JoinTexts(sep, Tail(texts))

\* json.dumps(x): the text a sender writes for the value x
RECURSIVE dumps(_)
dumps(x) ==
    CASE x.k = "str"  -> <<x.v>>
      [] x.k = "null" -> <<"null">>
      [] x.k = "arr"  ->
            <<"[">> \o JoinTexts(<<",", " ">>, [i \in 1..Len(x.v) |-> dumps(x.v[i])]) \o <<"]">>
      [] x.k = "obj"  ->
            <<"{">> \o JoinTexts(<<",", " ">>,
                                 [i \in 1..Len(x.v) |->
                                    <<x.v[i].key, ":", " ">> \o dumps(x.v[i].val)])
            \o <<"}">>

\* texts that are no JSON: a trailing comma, nothing at all, an unclosed
\* object, a missing colon, a second value after the first
MalformedTexts ==
    {<<"{", "skills", ":", "[", "math", "]", ",", "}">>,
     <<>>,
     <<"{">>,
     <<"{", "skills", "math", "}">>,
     <<"{", "}", " ", "{", "}">>,
     <<"[", "math", ",", "]">>}

\* the bodies of process-cv requests
CvTexts == {dumps(x) : x \in CvRecords \cup NonRecords} \cup MalformedTexts

\* the JSON part of a completion reply
ReplyBodies ==
    {dumps(x) : x \in {RecordOf(Fields, MaxItems), AltRecord, NullNameRecord, JArr(<<>>)}}
    \cup {<<"{", "skills", ":", "[", "math", "]", ",", "}">>}

\* what the completion service puts before and after the JSON part
Wrappers ==
    {<< <<>>, <<>> >>,
     << <<"\n">>, <<"\n">> >>,
     << FenceJson \o <<"\n">>, <<"\n">> \o Fence >>,
     << Fence \o <<"\n">>, <<"\n">> \o Fence >>,
     << FenceJson, Fence >>,
     << FenceJson \o Fence, Fence >>,
     << Fence \o Fence, Fence \o Fence >>,
     << <<" ">> \o FenceJson \o <<"\n">>, <<"\n">> \o Fence \o <<"\n">> >>,
     << FenceJson \o <<"\n">>, <<>> >>,
     << <<>>, <<"\n">> \o Fence >>}

\* completion replies: a body, bare or wrapped in fence markers
Replies == {w[1] \o body \o w[2] : w \in Wrappers, body \in ReplyBodies}

Formats == {"json", "PDF"}

\* str.lower() on the format parameter
lower(format) == IF format \in {"PDF", "Pdf"} THEN "pdf" ELSE format

SessionIds == {"default", "other"}

----------------------------------------------------------------------------
(* The handlers as functions of the store and the request: each yields the *)
(* store it leaves and the response it sends                               *)

\* wrote is the value the handler assigned into the store, NoData if it assigned none
Outcome(store, resp) == [store |-> store, response |-> resp, wrote |-> NoData]
Wrote(val, outcome) == [outcome EXCEPT !.wrote = val]

\* process-cv dropping the entry when the body is no JSON
process_cv_data_result_resetting(store, text) ==
    LET parsed == json_loads(text)
    IN  IF ~parsed.ok
        THEN Outcome([x \in DOMAIN store \ {session_id_default} |-> store[x]],
                     [Response(400, "invalid_json", NoData) EXCEPT !.pos = parsed.pos])
        ELSE LET stored == storage_setitem(store, session_id_default, parsed.val)
             IN  IF isdict(parsed.val)
                 THEN Wrote(parsed.val,
                            Outcome(stored, [Response(200, "processed", NoData)
                                               EXCEPT !.fields = dict_keys(parsed.val)]))
                 ELSE Wrote(parsed.val,
                            Outcome(stored, Response(500, "processing_error", NoData)))

\* POST /genpdf/process-cv
process_cv_data_result(store, text) ==
    LET parsed == json_loads(text)
    IN  IF ~parsed.ok
        THEN Outcome(store, [Response(400, "invalid_json", NoData) EXCEPT !.pos = parsed.pos])
        ELSE LET stored == storage_setitem(store, session_id_default, parsed.val)
             IN  IF isdict(parsed.val)
                 THEN Wrote(parsed.val,
                            Outcome(stored, [Response(200, "processed", NoData)
                                               EXCEPT !.fields = dict_keys(parsed.val)]))
                 ELSE Wrote(parsed.val,
                            Outcome(stored, Response(500, "processing_error", NoData)))

\* the name in the attachment's filename: name.replace needs a string
filename_of(cv_data) ==
    LET personal == dict_get(cv_data, "personal_information", JObj(<<>>))
    IN  IF ~isdict(personal) THEN Raise
        ELSE ParagraphOf(dict_get(personal, "name", JStr("CV")), "filename")

\* the extraction endpoint once the reply has parsed: store, then answer with
\* the document or with the parsed data
getwebcontent_parsed(store, reply, format, cv_data) ==
    LET stored == storage_setitem(store, session_id_default, cv_data)
    IN  Wrote(cv_data,
          IF lower(format) = "pdf"
          THEN LET pdf == main_generatepdf(cv_data)
               IN  IF ~pdf.ok \/ ~filename_of(cv_data).ok
                   THEN Outcome(stored, Response(500, "pdf_failed", NoData))
                   ELSE Outcome(stored,
                                [Response(200, "pdf", NoData)
                                   EXCEPT !.elements = pdf.elements,
                                          !.filename = filename_of(cv_data).elements[1].text])
          ELSE IF ~isdict(cv_data)
               THEN Outcome(stored, Response(500, "server_error", NoData))
               ELSE Outcome(stored, [Response(200, "extracted", cv_data)
                                       EXCEPT !.raw = reply, !.fields = dict_keys(cv_data)]))

\* the extraction endpoint binding the session entry before the reply is parsed
getwebcontent_result_storing(store, upstream, reply, format) ==
    IF upstream # "ok" THEN Outcome(store, Response(500, upstream, NoData))
    ELSE LET parsed == json_loads(clean_json(reply))
         IN  IF ~parsed.ok
             THEN Wrote(JNull,
                        Outcome(storage_setitem(store, session_id_default, JNull),
                                [Response(200, "parsing_failed", NoData)
                                   EXCEPT !.raw = reply, !.pos = parsed.pos]))
             ELSE getwebcontent_parsed(store, reply, format, parsed.val)

\* the extraction endpoint without the handler of JSONDecodeError
getwebcontent_result_strict(store, upstream, reply, format) ==
    IF upstream # "ok" THEN Outcome(store, Response(500, upstream, NoData))
    ELSE LET parsed == json_loads(clean_json(reply))
         IN  IF ~parsed.ok
             THEN Outcome(store, Response(500, "server_error", NoData))
             ELSE getwebcontent_parsed(store, reply, format, parsed.val)

\* GET /scrape/{url}: upstream is the outcome of the fetch and the completion
\* call, reply the completion text
getwebcontent_result(store, upstream, reply, format) ==
    IF upstream # "ok" THEN Outcome(store, Response(500, upstream, NoData))
    ELSE LET parsed == json_loads(clean_json(reply))
         IN  IF ~parsed.ok
             THEN Outcome(store, [Response(200, "parsing_failed", NoData)
                                     EXCEPT !.raw = reply, !.pos = parsed.pos])
             ELSE getwebcontent_parsed(store, reply, format, parsed.val)

\* a field read answering the default for an unknown session key
get_field_result_defaulting(store, field, session_id) ==
    IF session_id \notin DOMAIN store
    THEN Outcome(store, Response(200, "field", FieldDefault(field)))
    ELSE IF ~isdict(store[session_id])
         THEN Outcome(store, Response(500, "unhandled_error", NoData))
         ELSE Outcome(store, Response(200, "field",
                                      dict_get(store[session_id], field, FieldDefault(field))))

\* GET /genpdf/<field>: the fourteen field-read endpoints
get_field_result(store, field, session_id) ==
    IF session_id \notin DOMAIN store
    THEN Outcome(store, Response(404, "not_found", NoData))
    ELSE IF ~isdict(store[session_id])
         THEN Outcome(store, Response(500, "unhandled_error", NoData))
         ELSE Outcome(store, Response(200, "field",
                                      dict_get(store[session_id], field, FieldDefault(field))))

\* GET /genpdf/all-fields
get_all_cv_fields_result(store, session_id) ==
    IF session_id \notin DOMAIN store
    THEN Outcome(store, Response(404, "not_found", NoData))
    ELSE Outcome(store, Response(200, "all_fields", store[session_id]))

----------------------------------------------------------------------------
(* The service, one request at a time                                      *)

NoThreads == [t \in {} |-> 0]

Init ==
    /\ cv_storage = [x \in {} |-> JNull]
    /\ request = NoRequest
    /\ response = NoResponse
    /\ threads = NoThreads
    /\ lastWrite = NoData

Serve(req, outcome) ==
    /\ request' = req
    /\ response' = outcome.response
    /\ cv_storage' = outcome.store
    /\ lastWrite' = IF outcome.wrote # NoData THEN outcome.wrote ELSE lastWrite
    /\ UNCHANGED threads

process_cv_data ==
    \E text \in CvTexts :
        Serve(Request("process_cv", "", "", text, ""),
              process_cv_data_result(cv_storage, text))

getwebcontent ==
    \E reply \in Replies, format \in Formats :
        Serve(Request("scrape", "", "", reply, format),
              getwebcontent_result(cv_storage, "ok", reply, format))

getwebcontent_upstream_error ==
    \E upstream \in {"fetch_error", "completion_error"}, format \in Formats :
        Serve([Request("scrape", "", "", <<>>, format) EXCEPT !.upstream = upstream],
              getwebcontent_result(cv_storage, upstream, <<>>, format))

get_field ==
    \E field \in FieldSet, session_id \in SessionIds :
        Serve(Request("get_field", session_id, field, <<>>, ""),
              get_field_result(cv_storage, field, session_id))

get_all_cv_fields ==
    \E session_id \in SessionIds :
        Serve(Request("get_all_cv_fields", session_id, "", <<>>, ""),
              get_all_cv_fields_result(cv_storage, session_id))

genpdf_home ==
    Serve(Request("genpdf_home", "", "", <<>>, ""),
          Outcome(cv_storage, Response(200, "home", NoData)))

say_hi ==
    \E status \in {200, 500} :
        Serve(Request("say_hi", "", "", <<>>, ""),
              Outcome(cv_storage, Response(status, "say_hi", NoData)))

Next ==
    \/ process_cv_data
    \/ getwebcontent
    \/ getwebcontent_upstream_error
    \/ get_field
    \/ get_all_cv_fields
    \/ genpdf_home
    \/ say_hi

Spec == Init /\ [][Next]_vars

----------------------------------------------------------------------------
(* Properties of the service                                               *)

ReadOps == {"get_field", "get_all_cv_fields"}

\* C1: a field read or an all-fields read whose session key has no stored
\* entry is answered 404 and carries no data, whatever the store holds.
C1_MissingKeyIsNotFound ==
    (request.op \in ReadOps /\ request.session_id \notin DOMAIN cv_storage)
        => (response.status = 404 /\ response.data = NoData)

C1_Witness ==
    /\ request.op = "get_field"
    /\ request.session_id = "default"
    /\ DOMAIN cv_storage = {}
    /\ response.status = 404

\* C2: while the record R of the latest write is the stored one, reading a
\* field answers 200 with R's value of that field if R has it, and otherwise
\* with {} for personal_information, "" for professional_summary and [] for
\* every other field.
C2_FieldRoundTrip ==
    (request.op = "get_field" /\ request.session_id = "default"
     /\ lastWrite # NoData /\ lastWrite.k = "obj")
        => /\ response.status = 200
           /\ \A i \in 1..Len(lastWrite.v) :
                 lastWrite.v[i].key = request.field => response.data = lastWrite.v[i].val
           /\ (\A i \in 1..Len(lastWrite.v) : lastWrite.v[i].key # request.field)
                 => response.data =
                       (IF request.field = "personal_information" THEN [k |-> "obj", v |-> <<>>]
                        ELSE IF request.field = "professional_summary" THEN [k |-> "str", v |-> ""]
                        ELSE [k |-> "arr", v |-> <<>>])

C2_Witness ==
    /\ request.op = "get_field"
    /\ request.session_id = "default"
    /\ request.field = "skills"
    /\ lastWrite = AltRecord
    /\ response.status = 200
    /\ response.data = JArr(<<JStr("poetry")>>)

\* C3: a field read whose session key has an entry always answers 200 (with
\* the value or the default), whatever JSON value a submission or an
\* extraction has stored.
C3_FieldReadNeverFails ==
    (request.op = "get_field" /\ request.session_id \in DOMAIN cv_storage)
        => response.status = 200

\* C5: the store starts empty and a key that is present stays present over
\* every step.
C5_EntriesNeverRemoved ==
    /\ DOMAIN cv_storage = {}
    /\ [][DOMAIN cv_storage \subseteq DOMAIN cv_storage']_vars

C5_Witness ==
    /\ "default" \in DOMAIN cv_storage
    /\ request.op = "process_cv"
    /\ response.status = 400

\* C6: the store never has a key other than "default", and a read with any
\* other session key is answered 404.
C6_SingleFixedKey ==
    /\ DOMAIN cv_storage \subseteq {"default"}
    /\ (request.op \in ReadOps /\ request.session_id # "default") => response.status = 404

C6_Witness ==
    /\ DOMAIN cv_storage = {"default"}
    /\ request.op = "get_field"
    /\ request.session_id = "other"
    /\ response.status = 404

\* C7: when fetch and completion succeed and the cleaned reply is no JSON,
\* the extraction endpoint answers 200 with the reply as it came and a
\* numeric error position.
C7_MalformedReplyIsSuccess ==
    (request.op = "scrape" /\ request.upstream = "ok"
     /\ ~json_loads(clean_json(request.text)).ok)
        => /\ response.status = 200
           /\ response.raw = request.text
           /\ response.pos \in 0..Len(request.text)

C7_Witness ==
    /\ request.op = "scrape"
    /\ startswith(request.text, FenceJson)
    /\ response.kind = "parsing_failed"
    /\ response.status = 200
    /\ response.pos = 7

----------------------------------------------------------------------------
(* The service with requests in flight: every handler runs on a thread of  *)
(* its own and reaches the store in single dict operations, between which  *)
(* the other threads run.                                                  *)

Threads == 1..NumThreads

Idle == [pc |-> "idle", cv_data |-> NoData, text |-> <<>>, session_id |-> "", field |-> ""]

ConcTexts == {dumps(AltRecord), dumps(JArr(<<>>)), <<"{">>}

ConcReplies ==
    {FenceJson \o <<"\n">> \o dumps(RecordOf(EvenFields, MaxItems)) \o <<"\n">> \o Fence,
     <<"{", "skills", ":", "[", "math", "]", ",", "}">>}

ConcFields == {"languages"}

\* the values a write can assign
WrittenValues ==
    {json_loads(text).val : text \in {t \in ConcTexts : json_loads(t).ok}}
    \cup {json_loads(clean_json(reply)).val :
            reply \in {r \in ConcReplies : json_loads(clean_json(r)).ok}}

ConcInit ==
    /\ cv_storage = [x \in {} |-> JNull]
    /\ request = NoRequest
    /\ response = NoResponse
    /\ threads = [t \in Threads |-> Idle]
    /\ lastWrite = NoData

Respond(t, req, resp) ==
    /\ request' = req
    /\ response' = resp
    /\ threads' = [threads EXCEPT ![t] = Idle]

\* process-cv up to json.loads
c_process_cv_parse(t) ==
    /\ threads[t].pc = "idle"
    /\ \E text \in ConcTexts :
          LET parsed == json_loads(text)
          IN  IF ~parsed.ok
              THEN /\ Respond(t, Request("process_cv", "", "", text, ""),
                              process_cv_data_result(cv_storage, text).response)
                   /\ UNCHANGED <<cv_storage, lastWrite>>
              ELSE /\ threads' = [threads EXCEPT ![t] =
                                    [Idle EXCEPT !.pc = "pcv_parsed", !.text = text,
                                                 !.cv_data = parsed.val]]
                   /\ UNCHANGED <<cv_storage, lastWrite, request, response>>

\* cv_storage[session_id] = cv_json
c_process_cv_store(t) ==
    /\ threads[t].pc = "pcv_parsed"
    /\ cv_storage' = storage_setitem(cv_storage, session_id_default, threads[t].cv_data)
    /\ lastWrite' = threads[t].cv_data
    /\ threads' = [threads EXCEPT ![t].pc = "pcv_stored"]
    /\ UNCHANGED <<request, response>>

\* process-cv after the assignment: the response
c_process_cv_respond(t) ==
    /\ threads[t].pc = "pcv_stored"
    /\ Respond(t, Request("process_cv", "", "", threads[t].text, ""),
               process_cv_data_result(cv_storage, threads[t].text).response)
    /\ UNCHANGED <<cv_storage, lastWrite>>

\* the extraction endpoint up to json.loads
c_getwebcontent_parse(t) ==
    /\ threads[t].pc = "idle"
    /\ \E reply \in ConcReplies, upstream \in {"ok", "fetch_error"} :
          LET parsed == json_loads(clean_json(reply))
          IN  IF upstream # "ok" \/ ~parsed.ok
              THEN /\ Respond(t, [Request("scrape", "", "", reply, "json")
                                    EXCEPT !.upstream = upstream],
                              getwebcontent_result(cv_storage, upstream, reply, "json").response)
                   /\ UNCHANGED <<cv_storage, lastWrite>>
              ELSE /\ threads' = [threads EXCEPT ![t] =
                                    [Idle EXCEPT !.pc = "scrape_parsed", !.text = reply,
                                                 !.cv_data = parsed.val]]
                   /\ UNCHANGED <<cv_storage, lastWrite, request, response>>

\* cv_storage[session_id] = cv_data
c_getwebcontent_store(t) ==
    /\ threads[t].pc = "scrape_parsed"
    /\ cv_storage' = storage_setitem(cv_storage, session_id_default, threads[t].cv_data)
    /\ lastWrite' = threads[t].cv_data
    /\ threads' = [threads EXCEPT ![t].pc = "scrape_stored"]
    /\ UNCHANGED <<request, response>>

\* the extraction endpoint after the assignment: the response
c_getwebcontent_respond(t) ==
    /\ threads[t].pc = "scrape_stored"
    /\ Respond(t, Request("scrape", "", "", threads[t].text, "json"),
               getwebcontent_parsed(cv_storage, threads[t].text, "json",
                                    threads[t].cv_data).response)
    /\ UNCHANGED <<cv_storage, lastWrite>>

\* a read endpoint up to "if session_id not in cv_storage"
c_read_check(t) ==
    /\ threads[t].pc = "idle"
    /\ \E field \in ConcFields \cup {""}, session_id \in SessionIds :
          LET op == IF field = "" THEN "get_all_cv_fields" ELSE "get_field"
          IN  IF session_id \notin DOMAIN cv_storage
              THEN Respond(t, Request(op, session_id, field, <<>>, ""),
                           Response(404, "not_found", NoData))
              ELSE /\ threads' = [threads EXCEPT ![t] =
                                    [Idle EXCEPT !.pc = "read_checked", !.field = field,
                                                 !.session_id = session_id]]
                   /\ UNCHANGED <<request, response>>
    /\ UNCHANGED <<cv_storage, lastWrite>>

\* a read endpoint from cv_storage[session_id] on
c_read_get(t) ==
    /\ threads[t].pc = "read_checked"
    /\ LET session_id == threads[t].session_id
           field == threads[t].field
       IN  IF session_id \notin DOMAIN cv_storage
           THEN Respond(t, Request("get_field", session_id, field, <<>>, ""),
                        Response(500, "unhandled_error", NoData))
           ELSE IF field = ""
                THEN Respond(t, Request("get_all_cv_fields", session_id, field, <<>>, ""),
                             get_all_cv_fields_result(cv_storage, session_id).response)
                ELSE Respond(t, Request("get_field", session_id, field, <<>>, ""),
                             get_field_result(cv_storage, field, session_id).response)
    /\ UNCHANGED <<cv_storage, lastWrite>>

ConcNext ==
    \E t \in Threads :
        \/ c_process_cv_parse(t)
        \/ c_process_cv_store(t)
        \/ c_process_cv_respond(t)
        \/ c_getwebcontent_parse(t)
        \/ c_getwebcontent_store(t)
        \/ c_getwebcontent_respond(t)
        \/ c_read_check(t)
        \/ c_read_get(t)

SpecConc == ConcInit /\ [][ConcNext]_vars

\* C4: with requests interleaved, the entry under "default" is at every
\* moment the whole value of the latest assignment into the store (no entry
\* before the first), and what an all-fields read returns is one written
\* value as a whole.
C4_LastWriteWinsWholesale ==
    /\ IF lastWrite = NoData
       THEN DOMAIN cv_storage = {}
       ELSE DOMAIN cv_storage = {"default"} /\ cv_storage["default"] = lastWrite
    /\ (response.kind = "all_fields") => response.data \in WrittenValues

\* a second write has replaced a record: its own fields only, while another
\* write is still in flight
C4_Witness ==
    /\ lastWrite = AltRecord
    /\ cv_storage["default"] = AltRecord
    /\ request.op = "scrape"
    /\ response.kind = "extracted"
    /\ \E t \in Threads : threads[t].pc = "pcv_parsed"

----------------------------------------------------------------------------
(* The cleanup of a completion reply, on its own                           *)

CleanInputs ==
    {ws1 \o lead \o mid \o body \o gap \o trail \o ws2 :
        ws1 \in {<<>>, <<"\n">>},
        lead \in {<<>>, Fence, FenceJson},
        mid \in {<<>>, <<"\n">>, Fence},
        body \in {<<"{", "}">>, <<"[", "math", "]">>, <<>>},
        gap \in {<<>>, <<"\n">>},
        trail \in {<<>>, Fence, Fence \o Fence},
        ws2 \in {<<>>, <<" ">>}}

CleanInit ==
    /\ cv_storage = [x \in {} |-> JNull]
    /\ \E reply \in CleanInputs : request = Request("clean_json", "", "", reply, "")
    /\ response = NoResponse
    /\ threads = NoThreads
    /\ lastWrite = NoData

\* lines 68-79 of getwebcontent applied to the reply
clean_reply ==
    /\ request.op = "clean_json"
    /\ response = NoResponse
    /\ response' = [Response(0, "cleaned", NoData) EXCEPT !.raw = clean_json(request.text)]
    /\ UNCHANGED <<cv_storage, request, threads, lastWrite>>

CleanNext == clean_reply

SpecClean == CleanInit /\ [][CleanNext]_vars

\* C8: the cleaned text of a reply that begins with a marker and, that marker
\* taken off, ends with ``` is the trimmed reply less that one leading marker
\* (```json or ```) and less one trailing ```, trimmed again; the cleaned text
\* of a reply with no marker at either end is the trimmed reply.
C8_CleanupRemovesOneMarkerEach ==
    response.kind = "cleaned" =>
        LET a == strip(request.text)
            b == IF startswith(a, FenceJson) THEN SubSeq(a, Len(FenceJson) + 1, Len(a))
                 ELSE SubSeq(a, Len(Fence) + 1, Len(a))
        IN  /\ (startswith(a, Fence) /\ endswith(b, Fence))
                  => response.raw = strip(SubSeq(b, 1, Len(b) - Len(Fence)))
            /\ (~startswith(a, Fence) /\ ~endswith(a, Fence)) => response.raw = a

----------------------------------------------------------------------------
(* The renderers, on their own                                             *)

\* the fields the renderers read
RenderFields == SelectSeq(Fields, LAMBDA f : f # "references")
RenderFieldSet == {RenderFields[i] : i \in 1..Len(RenderFields)}

\* the record with the fields of filled holding MaxItems items and the fields
\* of empty holding the empty value of their type
RenderRecord(filled, empty) ==
    LET fs == SelectSeq(RenderFields, LAMBDA f : f \in filled \cup empty)
    IN  JObj([i \in 1..Len(fs) |->
                Member(fs[i], IF fs[i] \in filled THEN SampleValue(fs[i], MaxItems)
                              ELSE FieldDefault(fs[i]))])

\* at most one of the fields that are not filled is present but empty
EmptyChoices(filled) == {{}} \cup {{f} : f \in RenderFieldSet \ filled}

RenderInit ==
    /\ cv_storage = [x \in {} |-> JNull]
    /\ \E filled \in SUBSET RenderFieldSet :
          \E empty \in EmptyChoices(filled) :
             request = [Request("render", "", "", <<>>, "")
                          EXCEPT !.cv_data = RenderRecord(filled, empty)]
    /\ response = NoResponse
    /\ threads = NoThreads
    /\ lastWrite = NoData

Rendered(op, kind, result) ==
    /\ request.op = "render"
    /\ request' = [request EXCEPT !.op = op]
    /\ response' = IF result.ok
                   THEN [Response(200, kind, NoData) EXCEPT !.elements = result.elements]
                   ELSE Response(500, "pdf_failed", NoData)
    /\ UNCHANGED <<cv_storage, threads, lastWrite>>

\* pdf_generator.generatepdf(cv_data)
render_document == Rendered("generatepdf", "document", generatepdf(request.cv_data))

\* main.generatepdf(cv_data)
render_main == Rendered("main_generatepdf", "main_document", main_generatepdf(request.cv_data))

RenderNext == render_document \/ render_main

SpecRender == RenderInit /\ [][RenderNext]_vars

\* the section headings in the order of the claim
SectionHeadings ==
    <<<<"professional_summary", "PROFESSIONAL SUMMARY">>,
      <<"skills", "CORE COMPETENCIES">>,
      <<"projects", "KEY PROJECTS">>,
      <<"work_experience", "PROFESSIONAL EXPERIENCE">>,
      <<"education", "EDUCATION">>,
      <<"certifications", "CERTIFICATIONS">>,
      <<"awards", "AWARDS & ACHIEVEMENTS">>,
      <<"languages", "LANGUAGES">>,
      <<"publications", "PUBLICATIONS">>,
      <<"volunteer", "VOLUNTEER EXPERIENCE">>,
      <<"conferences", "CONFERENCES">>,
      <<"memberships", "PROFESSIONAL MEMBERSHIPS">>>>

\* the record r has the field f and its value is not empty
NonEmptyField(r, f) ==
    \E i \in 1..Len(r.v) :
        /\ r.v[i].key = f
        /\ \/ r.v[i].val.k = "str" /\ r.v[i].val.v # ""
           \/ r.v[i].val.k \in {"arr", "obj"} /\ r.v[i].val.v # <<>>

\* the texts of the blocks of style style, in document order
TextsOfStyle(elements, style) ==
    LET blocks == SelectSeq(elements, LAMBDA b : b.type = "Paragraph" /\ b.style = style)
    IN  [i \in 1..Len(blocks) |-> blocks[i].text]

\* C9: the Document Renderer assembles every record, and the section
\* headings of its block sequence are, in this order, the headings of exactly
\* the fields of SectionHeadings that the record has non-empty.
C9_HeadingsIffNonEmptyInOrder ==
    (request.op = "generatepdf") =>
        /\ response.status = 200
        /\ LET expected == SelectSeq(SectionHeadings,
                                     LAMBDA p : NonEmptyField(request.cv_data, p[1]))
           IN  TextsOfStyle(response.elements, "section_style")
                  = [i \in 1..Len(expected) |-> expected[i][2]]

\* every section present, after a field that is present but empty
C9_Witness ==
    /\ request.op = "generatepdf"
    /\ Len(TextsOfStyle(response.elements, "section_style")) = 11
    /\ dict_contains(request.cv_data, "awards")
    /\ ~NonEmptyField(request.cv_data, "awards")

\* C10: for the record without any field both renderers succeed and the only
\* paragraph of the block sequence is the title "CV": no section heading, no
\* contact line, no links line.
C10_EmptyRecordOnlyTitle ==
    (request.op \in {"generatepdf", "main_generatepdf"} /\ request.cv_data = JObj(<<>>))
        => /\ response.status = 200
           /\ LET paragraphs == SelectSeq(response.elements, LAMBDA b : b.type = "Paragraph")
              IN  /\ Len(paragraphs) = 1
                  /\ paragraphs[1].text = "CV"
                  /\ paragraphs[1].style \in {"name_style", "title_style"}
           /\ \A i \in 1..Len(response.elements) :
                 response.elements[i].style \notin {"section_style", "Heading2", "contact_style"}

C10_Witness ==
    /\ request.op = "generatepdf"
    /\ request.cv_data = JObj(<<>>)
    /\ response.status = 200
    /\ Len(response.elements) = 2

----------------------------------------------------------------------------
(* The renderers on records whose entries lack fields                      *)

EntryFields == {"education", "work_experience", "projects"}

\* the entry sample restricted to the fields keys
EntryOf(sample, keys) == JObj(SelectSeq(sample.v, LAMBDA m : m.key \in keys))

KeysOf(sample) == {sample.v[i].key : i \in 1..Len(sample.v)}

\* the record with the fields of others filled and MaxItems entries in each of
\* education, work_experience and projects, every entry holding only the
\* fields named by edu_keys, job_keys and project_keys
EntryRecord(others, edu_keys, job_keys, project_keys) ==
    LET fs == SelectSeq(RenderFields, LAMBDA f : f \in others \cup EntryFields)
        value(f) ==
            CASE f = "education" ->
                    JArr([i \in 1..MaxItems |-> EntryOf(EducationSample, edu_keys)])
              [] f = "work_experience" ->
                    JArr([i \in 1..MaxItems |-> EntryOf(JobSample(MaxItems), job_keys)])
              [] f = "projects" ->
                    JArr([i \in 1..MaxItems |-> EntryOf(ProjectSample(MaxItems), project_keys)])
              [] OTHER -> SampleValue(f, MaxItems)
    IN  JObj([i \in 1..Len(fs) |-> Member(fs[i], value(fs[i]))])

EntriesInit ==
    /\ cv_storage = [x \in {} |-> JNull]
    /\ \/ \E filled \in SUBSET RenderFieldSet :
             request = [Request("render", "", "", <<>>, "")
                          EXCEPT !.cv_data = RenderRecord(filled, {})]
       \/ \E others \in {{}, {"personal_information"}, RenderFieldSet \ EntryFields} :
             \E edu_keys \in SUBSET KeysOf(EducationSample) :
                \E job_keys \in SUBSET KeysOf(JobSample(MaxItems)) :
                   \E project_keys \in SUBSET KeysOf(ProjectSample(MaxItems)) :
                      request = [Request("render", "", "", <<>>, "")
                                   EXCEPT !.cv_data =
                                      EntryRecord(others, edu_keys, job_keys, project_keys)]
    /\ response = NoResponse
    /\ threads = NoThreads
    /\ lastWrite = NoData

SpecEntries == EntriesInit /\ [][RenderNext]_vars

\* the number of items of the list field f of the record r (0 if r lacks f)
ItemCount(r, f) ==
    IF \E i \in 1..Len(r.v) : r.v[i].key = f
    THEN Len(r.v[CHOOSE i \in 1..Len(r.v) : r.v[i].key = f].val.v)
    ELSE 0

\* C11: whatever top-level fields and whatever fields of the education,
\* work_experience and project entries a record lacks, both renderers succeed
\* and the assembly reaches every entry: the Document Renderer has one title
\* block per project, job and education entry, the extraction endpoint's
\* renderer one per project.
C11_MissingFieldsNeverFail ==
    /\ (request.op = "generatepdf") =>
          /\ response.status = 200
          /\ Len(TextsOfStyle(response.elements, "job_title_style"))
                = ItemCount(request.cv_data, "projects")
                  + ItemCount(request.cv_data, "work_experience")
                  + ItemCount(request.cv_data, "education")
    /\ (request.op = "main_generatepdf") =>
          /\ response.status = 200
          /\ Len(TextsOfStyle(response.elements, "Heading3"))
                = ItemCount(request.cv_data, "projects")

\* entries without any field, rendered with their fallback titles
C11_Witness ==
    /\ request.op = "generatepdf"
    /\ request.cv_data = EntryRecord({}, {}, {}, {})
    /\ response.status = 200
    /\ TextsOfStyle(response.elements, "job_title_style")
          = [i \in 1..(3 * MaxItems) |->
               IF i <= MaxItems THEN "<b>Project</b>"
               ELSE IF i <= 2 * MaxItems THEN "<b>Position</b>" ELSE "<b>Degree</b>"]

----------------------------------------------------------------------------
(* The extraction endpoint: the document it renders and its writes of the  *)
(* session entry                                                           *)

\* the field whose section a heading of either renderer opens
HeadingFields ==
    <<<<"professional_summary", {"PROFESSIONAL SUMMARY", "Professional Summary"}>>,
      <<"skills", {"CORE COMPETENCIES", "Skills"}>>,
      <<"projects", {"KEY PROJECTS", "Projects"}>>,
      <<"work_experience", {"PROFESSIONAL EXPERIENCE"}>>,
      <<"education", {"EDUCATION"}>>,
      <<"certifications", {"CERTIFICATIONS"}>>,
      <<"awards", {"AWARDS & ACHIEVEMENTS"}>>,
      <<"languages", {"LANGUAGES"}>>,
      <<"publications", {"PUBLICATIONS"}>>,
      <<"volunteer", {"VOLUNTEER EXPERIENCE"}>>,
      <<"conferences", {"CONFERENCES"}>>,
      <<"memberships", {"PROFESSIONAL MEMBERSHIPS"}>>>>

\* the fields whose sections a block sequence has: those with a heading block
\* ("section_style" in pdf_generator, "Heading2" in main) among the elements
SectionsOf(elements) ==
    LET titles == {elements[i].text : i \in {j \in 1..Len(elements) :
                       /\ elements[j].type = "Paragraph"
                       /\ elements[j].style \in {"section_style", "Heading2"}}}
    IN  {HeadingFields[i][1] : i \in {j \in 1..Len(HeadingFields) :
                                        HeadingFields[j][2] \cap titles # {}}}

\* the record the extraction endpoint parsed out of the reply of its request
ParsedReply == json_loads(clean_json(request.text))

\* C13: whenever the extraction endpoint answers a request for document
\* output with a document, the block sequence it rendered has the same
\* sections as the block sequence of the Document Renderer
\* (pdf_generator.generatepdf) for the parsed record, Work Experience,
\* Education and the additional sections included.
C13_ExtractionRendersAllSections ==
    (request.op = "scrape" /\ response.kind = "pdf") =>
        LET document == generatepdf(ParsedReply.val)
        IN  /\ document.ok
            /\ SectionsOf(response.elements) = SectionsOf(document.elements)

\* the extraction request of a step failed: the fetch or the completion
\* failed, or the cleaned reply did not parse
ExtractionFailed(req) ==
    \/ req.upstream # "ok"
    \/ ~json_loads(clean_json(req.text)).ok

\* C14: a step of the extraction endpoint changes the session store only if
\* the fetch and the completion succeeded and the cleaned reply parsed as
\* JSON; a step in which one of the three failed leaves the store as it was.
C14_ExtractionWritesOnlyOnSuccess ==
    [][(request'.op = "scrape" /\ ExtractionFailed(request'))
          => cv_storage' = cv_storage]_vars

\* an extraction whose reply did not parse has answered, and the record of an
\* earlier request is still the session entry
C14_Witness ==
    /\ request.op = "scrape"
    /\ request.upstream = "ok"
    /\ response.kind = "parsing_failed"
    /\ session_id_default \in DOMAIN cv_storage
    /\ cv_storage[session_id_default] = AltRecord

\* C15: a step in which the extraction endpoint or the process-cv endpoint
\* answers with an error response (status 4xx or 5xx) leaves the session
\* store equal to its value before the request.
C15_ErrorResponseLeavesStore ==
    [][(request'.op \in {"scrape", "process_cv"} /\ response'.status >= 400)
          => cv_storage' = cv_storage]_vars

====
